---------------------------- MODULE Spec2Model ----------------------------
(*************************************************************************)
(* trado: services.toml -> docker-compose.yml with traefik labels.       *)
(*                                                                       *)
(* Representation of Python values:                                      *)
(*   - a string the program splits, strips, lower-cases or prefix-tests  *)
(*     (public, restart, the doppler keys) is a sequence of one-character*)
(*     strings; Join turns it into the text an f-string interpolates;    *)
(*   - a string the program only carries (name, image, list items) is a  *)
(*     TLA+ string;                                                      *)
(*   - a dict is a function whose DOMAIN is its key set, d.get(k, v) is  *)
(*     Get(d, k, v), del d[k] is Del(d, k);                              *)
(*   - a raised TradoException is a result record with ok = FALSE and    *)
(*     the exception text in exc.                                        *)
(*************************************************************************)
EXTENDS Integers, Sequences, FiniteSets, TLC

\* Bounds of the model.
MaxServices == 3
MaxPublicLen == 5

DEFAULT_SOURCE == "services.toml"
DEFAULT_OUTPUT == "docker-compose.yml"

\* The backquote of the rule text (line 134); a TLA+ string literal cannot
\* hold that character, so it is written as an apostrophe.
BQ == "'"

---------------------------------------------------------------------------
\* Strings as sequences of characters.

RECURSIVE Join(_)
Join(s) == IF s = <<>> THEN "" ELSE Head(s) \o Join(Tail(s))

Whitespace == {" "}

RECURSIVE LStrip(_)
LStrip(s) ==
  IF s # <<>> /\ Head(s) \in Whitespace THEN LStrip(Tail(s)) ELSE s

RECURSIVE RStrip(_)
RStrip(s) ==
  IF s # <<>> /\ s[Len(s)] \in Whitespace
    THEN RStrip(SubSeq(s, 1, Len(s) - 1))
    ELSE s

\* str.strip()
Strip(s) == RStrip(LStrip(s))

\* c in s
Contains(s, c) == \E k \in 1..Len(s) : s[k] = c

FirstIndex(s, c) == CHOOSE k \in 1..Len(s) :
                      s[k] = c /\ \A j \in 1..(k - 1) : s[j] # c

LastIndex(s, c) == CHOOSE k \in 1..Len(s) :
                     s[k] = c /\ \A j \in (k + 1)..Len(s) : s[j] # c

\* s.split(c, 1) for a string that contains c
Split1(s, c) ==
  << SubSeq(s, 1, FirstIndex(s, c) - 1),
     SubSeq(s, FirstIndex(s, c) + 1, Len(s)) >>

\* s.rsplit(c, 1) for a string that contains c
RSplit1(s, c) ==
  << SubSeq(s, 1, LastIndex(s, c) - 1),
     SubSeq(s, LastIndex(s, c) + 1, Len(s)) >>

\* s.startswith(p)
StartsWith(s, p) == Len(s) >= Len(p) /\ SubSeq(s, 1, Len(p)) = p

UpperCase ==
  <<"A","B","C","D","E","F","G","H","I","J","K","L","M",
    "N","O","P","Q","R","S","T","U","V","W","X","Y","Z">>

LowerCase ==
  <<"a","b","c","d","e","f","g","h","i","j","k","l","m",
    "n","o","p","q","r","s","t","u","v","w","x","y","z">>

LowerChar(c) ==
  IF \E n \in 1..Len(UpperCase) : UpperCase[n] = c
    THEN LowerCase[CHOOSE n \in 1..Len(UpperCase) : UpperCase[n] = c]
    ELSE c

\* str.lower()
Lower(s) == [k \in 1..Len(s) |-> LowerChar(s[k])]

---------------------------------------------------------------------------
\* Dicts.

EmptyDict == [k \in {} |-> TRUE]

Get(d, k, default) == IF k \in DOMAIN d THEN d[k] ELSE default

Del(d, k) == [x \in (DOMAIN d) \ {k} |-> d[x]]

Put(d, k, v) == [x \in (DOMAIN d) \cup {k} |-> IF x = k THEN v ELSE d[x]]

---------------------------------------------------------------------------
\* Trado.get_url_host_splitted: the three url_* fields it leaves on self.
\* url_expose's dataclass default 0 is written <<>>: both are falsy, and the
\* field is only read under a truth test (line 132).

AfterAt(public) ==
  IF Contains(public, "@")
    THEN [url_host   |-> Strip(RSplit1(public, "@")[1]),
          url_expose |-> Strip(RSplit1(public, "@")[2])]
    ELSE [url_host |-> public, url_expose |-> <<>>]

AfterSlash(h) ==
  IF Contains(h.url_host, "/")
    THEN [url_host   |-> Strip(Split1(h.url_host, "/")[1]),
          url_prefix |-> <<"/">> \o Strip(Split1(h.url_host, "/")[2]),
          url_expose |-> h.url_expose]
    ELSE [url_host |-> h.url_host, url_prefix |-> <<>>,
          url_expose |-> h.url_expose]

get_url_host_splitted(tr) ==
  LET public == Get(tr, "public", <<>>)
  IN  IF public # <<>>
        THEN AfterSlash(AfterAt(public))
        ELSE [url_host |-> <<>>, url_prefix |-> <<>>, url_expose |-> <<>>]

---------------------------------------------------------------------------
\* Trado.dict_to_dotted_notation.  A mapping is a sequence of <<key, value>>
\* pairs in declaration order; a value is a leaf (leaf = TRUE, its text in
\* text) or a nested mapping (leaf = FALSE, its pairs in pairs).  The result
\* is a sequence of <<dotted key, text>> pairs in insertion order.

\* res[k] = v on an insertion-ordered dict
DictSet(res, k, v) ==
  IF \E n \in 1..Len(res) : res[n][1] = k
    THEN [n \in 1..Len(res) |-> IF res[n][1] = k THEN <<k, v>> ELSE res[n]]
    ELSE Append(res, <<k, v>>)

RECURSIVE DictSetAll(_, _, _)
DictSetAll(res, prefix, pairs) ==
  IF pairs = <<>> THEN res
  ELSE DictSetAll(DictSet(res, prefix \o "." \o Head(pairs)[1], Head(pairs)[2]),
                  prefix, Tail(pairs))

RECURSIVE dict_to_dotted_notation(_)
RECURSIVE DottedFrom(_, _)
DottedFrom(res, d) ==
  IF d = <<>> THEN res
  ELSE LET k == Head(d)[1]
           v == Head(d)[2]
       IN  IF v.leaf
             THEN DottedFrom(DictSet(res, k, v.text), Tail(d))
             ELSE DottedFrom(DictSetAll(res, k, dict_to_dotted_notation(v.pairs)),
                             Tail(d))

dict_to_dotted_notation(d) == DottedFrom(<<>>, d)

\* Trado.get_complex_by_type.  A raw value has kind "list" (its strings in
\* items), "dict" (its pairs in pairs), "str" (its text in text) or "other"
\* (any other TOML type: integer, boolean...).
get_complex_by_type(tr, element) ==
  LET item == Get(tr, element,
                  [kind |-> "list", items |-> <<>>, pairs |-> <<>>, text |-> ""])
  IN  CASE item.kind = "list" -> [ok |-> TRUE, val |-> item.items, exc |-> ""]
        [] item.kind = "dict" ->
             LET flat == dict_to_dotted_notation(item.pairs)
             IN  [ok |-> TRUE,
                  val |-> [n \in 1..Len(flat) |-> flat[n][1] \o "=" \o flat[n][2]],
                  exc |-> ""]
        [] item.kind = "str" -> [ok |-> TRUE, val |-> <<item.text>>, exc |-> ""]
        [] OTHER -> [ok |-> FALSE, val |-> <<>>,
                     exc |-> BQ \o element \o BQ
                             \o " is not a list or map, key confilict"]

---------------------------------------------------------------------------
\* Trado.from_dict

ValidRestart ==
  { <<"a","l","w","a","y","s">>,
    <<"o","n","-","f","a","i","l","u","r","e">>,
    <<"u","n","l","e","s","s","-","s","t","o","p","p","e","d">>,
    <<"n","o">> }

ComplexFields == <<"labels", "envs", "volumes", "ports", "networks">>

\* The first of the five fields, in the order of lines 56-60, whose shape
\* get_complex_by_type rejects; 0 when none.
FirstBadField(tr) ==
  IF \E n \in 1..Len(ComplexFields) : ~get_complex_by_type(tr, ComplexFields[n]).ok
    THEN CHOOSE n \in 1..Len(ComplexFields) :
           /\ ~get_complex_by_type(tr, ComplexFields[n]).ok
           /\ \A m \in 1..(n - 1) : get_complex_by_type(tr, ComplexFields[m]).ok
    ELSE 0

from_dict(name, tr) ==
  LET url     == get_url_host_splitted(tr)
      bad     == FirstBadField(tr)
      restart == Lower(Get(tr, "restart", <<"a","l","w","a","y","s">>))
      gen     == [name       |-> name,
                  image      |-> Get(tr, "image", ""),
                  url_host   |-> url.url_host,
                  url_prefix |-> url.url_prefix,
                  url_expose |-> url.url_expose,
                  labels     |-> get_complex_by_type(tr, "labels").val,
                  envs       |-> get_complex_by_type(tr, "envs").val,
                  volumes    |-> get_complex_by_type(tr, "volumes").val,
                  ports      |-> get_complex_by_type(tr, "ports").val,
                  restart    |-> restart,
                  doppler    |-> Get(tr, "doppler", FALSE),
                  watchtower |-> Get(tr, "watchtower", FALSE),
                  networks   |-> get_complex_by_type(tr, "networks").val]
  IN  IF bad # 0
        THEN [ok |-> FALSE, gen |-> gen,
              exc |-> get_complex_by_type(tr, ComplexFields[bad]).exc]
      ELSE IF restart \notin ValidRestart
        THEN [ok |-> FALSE, gen |-> gen,
              exc |-> Join(restart) \o " is not a valid value for "
                      \o BQ \o "restart" \o BQ \o " option"]
      ELSE [ok |-> TRUE, gen |-> gen, exc |-> ""]

---------------------------------------------------------------------------
\* Trado.to_dict and the steps it calls.

\* dataclasses.asdict(self): every field of the descriptor, lists copied.
asdict(gen) ==
  [k \in {"name", "image", "url_host", "url_prefix", "url_expose", "labels",
          "envs", "volumes", "ports", "restart", "doppler", "watchtower",
          "networks"} |-> gen[k]]

\* Python truth of a value, by the type the key holds: the flags are
\* booleans, image is a carried string, every other value is a list or a
\* character sequence.
Truthy(k, v) ==
  CASE k \in {"doppler", "watchtower"} -> v
    [] k = "image" -> v # ""
    [] OTHER -> v # <<>>

\* Line 134.
RuleText(self) ==
  "Host(" \o BQ \o Join(self.url_host) \o BQ \o ")"
  \o (IF self.url_prefix # <<>>
        THEN " && PathPrefix(" \o BQ \o Join(self.url_prefix) \o BQ \o ")"
        ELSE "")

\* A slip in the branch of line 138: the host-level labels whatever the prefix.
BranchLinesHostOnly(self, rule) ==
  LET name == self.name
  IN  <<"http.middlewares." \o name \o "-https.redirectscheme.scheme=https",
        "http.routers." \o name \o "-http.entrypoints=web",
        "http.routers." \o name \o "-http.rule=" \o rule,
        "http.routers." \o name \o "-http.middlewares=" \o name
        \o "-https@docker",
        "http.routers." \o name \o ".tls.certresolver=default">>

\* Lines 138-146: the labels of the branch on url_prefix.
BranchLines(self, rule) ==
  LET name == self.name
  IN  IF self.url_prefix # <<>>
        THEN <<"http.middlewares." \o name
               \o "-pathfix.stripprefix.prefixes=" \o Join(self.url_prefix),
               "http.routers." \o name \o ".middlewares=" \o name
               \o "-pathfix@docker">>
        ELSE <<"http.middlewares." \o name
               \o "-https.redirectscheme.scheme=https",
               "http.routers." \o name \o "-http.entrypoints=web",
               "http.routers." \o name \o "-http.rule=" \o rule,
               "http.routers." \o name \o "-http.middlewares=" \o name
               \o "-https@docker",
               "http.routers." \o name \o ".tls.certresolver=default">>

\* The lines add_network_labels collects in `labels` (131-146), before the
\* traefik. prefix is put on each.
NetworkLabelLines(self) ==
  LET name == self.name
      rule == RuleText(self)
  IN  <<"enable=true">>
      \o (IF self.url_expose # <<>>
            THEN <<"http.services." \o name \o ".loadbalancer.server.port="
                   \o Join(self.url_expose)>>
            ELSE <<>>)
      \o <<"http.routers." \o name \o ".rule=" \o rule,
           "http.routers." \o name \o ".entrypoints=web-secure",
           "http.routers." \o name \o ".tls=true">>
      \o BranchLines(self, rule)

\* The networks entry after lines 127-130.
AttachNetwork(dt) ==
  IF "networks" \in DOMAIN dt
    THEN Put(dt, "networks", Append(dt["networks"], "traefik"))
    ELSE Put(dt, "networks", <<"traefik">>)

add_network_labels(self, dt) ==
  LET lines == NetworkLabelLines(self)
      net   == AttachNetwork(dt)
  IN  Put(net, "labels",
          net["labels"] \o [n \in 1..Len(lines) |-> "traefik." \o lines[n]])

DOPPLER == <<"D","O","P","P","L","E","R">>

\* Trado.add_doppler; run is what subprocess.run returned: the exit status
\* and the keys of the JSON object on its standard output.
add_doppler(dt, run) ==
  IF run.returncode = 0
    THEN [ok  |-> TRUE,
          val |-> Del(Put(dt, "environment",
                          LET kept == SelectSeq(run.keys,
                                        LAMBDA x : ~StartsWith(x, DOPPLER))
                          IN  [n \in 1..Len(kept) |-> Join(kept[n])]),
                      "doppler"),
          exc |-> ""]
    ELSE [ok |-> FALSE, val |-> dt, exc |-> "doppler secrets --json failed"]

add_watchtower_disabled(dt) ==
  Del(Put(dt, "labels",
          Append(dt["labels"], "com.centurylinklabs.watchtower.enable=false")),
      "watchtower")

\* Lines 115-120.
MergeEnvs(self, dt) ==
  IF "envs" \in DOMAIN dt
    THEN Del(IF "environment" \notin DOMAIN dt
               THEN Put(dt, "environment", self.envs)
               ELSE Put(dt, "environment", dt["environment"] \o self.envs),
             "envs")
    ELSE dt

\* Lines 121-123.
DropUrlFields(dt) == [k \in (DOMAIN dt) \ {"url_host", "url_prefix", "url_expose"} |-> dt[k]]

\* Line 124.
DropFalsy(dt) == [k \in {x \in DOMAIN dt : Truthy(x, dt[x])} |-> dt[k]]

\* A slip in lines 108-109: the source labels are kept when there is no host.
RouteOrKeep(self, dt) ==
  IF self.url_host # <<>> THEN add_network_labels(self, dt) ELSE dt

\* Lines 106-109.
RouteOrClear(self, dt) ==
  IF self.url_host # <<>>
    THEN add_network_labels(self, dt)
    ELSE Put(dt, "labels", <<>>)

to_dict(self, run) ==
  LET dt0 == Del(asdict(self), "name")
      dt1 == RouteOrClear(self, dt0)
      dop == IF self.doppler THEN add_doppler(dt1, run)
                             ELSE [ok |-> TRUE, val |-> dt1, exc |-> ""]
      dt3 == IF ~self.watchtower THEN add_watchtower_disabled(dop.val)
                                 ELSE dop.val
  IN  IF ~dop.ok
        THEN [ok |-> FALSE, val |-> EmptyDict, exc |-> dop.exc]
        ELSE [ok  |-> TRUE,
              val |-> DropFalsy(DropUrlFields(MergeEnvs(self, dt3))),
              exc |-> ""]

---------------------------------------------------------------------------
\* The output document.

\* DockerCompose(): the dataclass defaults of lines 18-20.
DockerCompose ==
  [version  |-> "3.8",
   services |-> EmptyDict,
   networks |-> ("traefik" :> ("external" :> TRUE))]

\* DockerCompose.to_yaml: the blocks dumped, in order.  yaml.dump is the
\* external serializer; a dumped block is kept as its name and its value.
to_yaml(dc) ==
  LET blocks == <<"version", "services", "networks">>
      kept   == SelectSeq(blocks,
                  LAMBDA b : ~(b = "networks" /\ dc.networks = EmptyDict))
  IN  [n \in 1..Len(kept) |-> [block |-> kept[n], value |-> dc[kept[n]]]]

\* A slip in lines 174-176: the flag follows the service just rendered.
TraefikNeededOfCurrent(traefik_needed, rendered) ==
  /\ "networks" \in DOMAIN rendered
  /\ \E n \in 1..Len(rendered["networks"]) : rendered["networks"][n] = "traefik"

\* Lines 174-176: the flag after looking at the service just rendered.
TraefikNeededAfter(traefik_needed, rendered) ==
  IF /\ "networks" \in DOMAIN rendered
     /\ rendered["networks"] # <<>>
     /\ \E n \in 1..Len(rendered["networks"]) : rendered["networks"][n] = "traefik"
    THEN TRUE
    ELSE traefik_needed

\* A slip in lines 177-178: the block is never cleared.
NetworksKept(traefik_needed, networks) == networks

\* Lines 177-178: dc.networks after the flag was updated.
NetworksAfter(traefik_needed, networks) ==
  IF ~traefik_needed THEN EmptyDict ELSE networks

\* sys.exit(code) as the status the parent process sees.
ExitStatus(code) == code % 256

\* What the interpreter writes for a TradoException nothing catches.
Traceback(exc) ==
  "Traceback (most recent call last):\n" \o "TradoException: " \o exc \o "\n"

---------------------------------------------------------------------------
\* Inputs.

Some(v) == [has |-> TRUE, val |-> <<v>>]
None == [has |-> FALSE, val |-> <<>>]

\* A raw entry holding key k when the option has a value.
Opt(k, o) == IF o.has THEN (k :> o.val[1]) ELSE EmptyDict

\* Raw values of the five list-like keys and of nested mappings.
List(v) == [kind |-> "list", items |-> v, pairs |-> <<>>, text |-> ""]
Map(v) == [kind |-> "dict", items |-> <<>>, pairs |-> v, text |-> ""]
Str(v) == [kind |-> "str", items |-> <<>>, pairs |-> <<>>, text |-> v]
Other == [kind |-> "other", items |-> <<>>, pairs |-> <<>>, text |-> ""]
Leaf(v) == [leaf |-> TRUE, text |-> v, pairs |-> <<>>]
Sub(v) == [leaf |-> FALSE, text |-> "", pairs |-> v]

\* What `doppler secrets --json` can answer.
DopplerRuns ==
  { [returncode |-> 0,
     keys |-> << <<"K","E","Y">>, <<"D","O","P","P","L","E","R","_","X">> >>],
    [returncode |-> 1, keys |-> <<>>] }

ServiceNames == <<"s1", "s2", "s3", "s4", "s5", "s6">>

\* The service entries a document of the run is drawn from.
RunEntries ==
  { ("image" :> "nginx"),
    ("image" :> "nginx") @@ ("public" :> <<"h">>),
    ("image" :> "nginx") @@ ("networks" :> List(<<"traefik">>))
                         @@ ("watchtower" :> TRUE),
    ("image" :> "nginx") @@ ("restart" :> <<"m","a","y","b","e">>),
    ("image" :> "nginx") @@ ("public" :> <<"h">>) @@ ("ports" :> Other),
    ("image" :> "nginx") @@ ("doppler" :> TRUE) }

Documents ==
  UNION { { [n \in 1..k |-> [name |-> ServiceNames[n], tr |-> f[n]]] :
            f \in [1..k -> RunEntries] } : k \in 0..MaxServices }

---------------------------------------------------------------------------
\* The run of main (lines 182-198) over one document.

VARIABLES
  pc,             \* "main", "loop", "write", "exit"; "idle" outside a run
  data,           \* tomli.loads(...): the entries in document order
  output,         \* the destination argument: "-" or a path
  dst,            \* the destination before the run: "absent", "older", "newer"
  idx,            \* position of the for loop of line 167
  dc,             \* the DockerCompose under construction
  traefik_needed, \* the local of line 165
  stdout,         \* what was printed
  stderr,         \* what was written to sys.stderr
  dst_written,    \* what the run wrote into the destination; <<>> if nothing
  status,         \* exit status, -1 while running
  built,          \* names handed to Trado.from_dict so far
  failed,         \* position of the service whose processing raised; 0 if none
  sv_pc,          \* one service: "raw", "built", "rendered", "raised"
  sv_tr,          \* its raw entry
  sv_gen,         \* the descriptor from_dict returned
  sv_out,         \* the mapping to_dict returned
  sv_exc          \* the text of the TradoException raised

runvars == <<pc, data, output, dst, idx, dc, traefik_needed, stdout, stderr,
             dst_written, status, built, failed>>
svvars == <<sv_pc, sv_tr, sv_gen, sv_out, sv_exc>>
vars == <<runvars, svvars>>

SvIdle ==
  /\ sv_pc = "idle" /\ sv_tr = EmptyDict /\ sv_gen = EmptyDict
  /\ sv_out = EmptyDict /\ sv_exc = ""

Init ==
  /\ pc = "main"
  /\ data \in Documents
  /\ output \in {"-", DEFAULT_OUTPUT}
  /\ dst \in {"absent", "older", "newer"}
  /\ idx = 0
  /\ dc = DockerCompose
  /\ traefik_needed = FALSE
  /\ stdout = <<>> /\ stderr = <<>> /\ dst_written = <<>>
  /\ status = -1
  /\ built = <<>> /\ failed = 0
  /\ SvIdle

\* Lines 185-187.
MainSourceMissing ==
  /\ pc = "main"
  /\ stderr' = Append(stderr, "Services: " \o DEFAULT_SOURCE \o " not found\n")
  /\ status' = ExitStatus(-1)
  /\ pc' = "exit"
  /\ UNCHANGED <<data, output, dst, idx, dc, traefik_needed, stdout,
                 dst_written, built, failed, svvars>>

Stale == output # "-" /\ dst = "newer"

\* Lines 188-191.
MainStale ==
  /\ pc = "main"
  /\ Stale
  /\ stderr' = Append(stderr, "Services: " \o output \o " is same or newer than "
                              \o DEFAULT_SOURCE \o ", stop.\n")
  /\ status' = ExitStatus(0)
  /\ pc' = "exit"
  /\ UNCHANGED <<data, output, dst, idx, dc, traefik_needed, stdout,
                 dst_written, built, failed, svvars>>

\* Lines 192, 164-166: make_dc_from_toml is entered.
MainMake ==
  /\ pc = "main"
  /\ ~Stale
  /\ dc' = DockerCompose
  /\ traefik_needed' = FALSE
  /\ idx' = 1
  /\ pc' = "loop"
  /\ UNCHANGED <<data, output, dst, stdout, stderr, dst_written, status,
                 built, failed, svvars>>

\* One pass of the loop body, lines 168-178, nothing raised.
ServiceRendered ==
  /\ pc = "loop"
  /\ idx <= Len(data)
  /\ LET service == data[idx].name
         tr      == from_dict(service, data[idx].tr)
     IN  /\ tr.ok
         /\ \E run \in DopplerRuns :
              LET res == to_dict(tr.gen, run)
                  tn  == TraefikNeededAfter(traefik_needed, res.val)
              IN  /\ res.ok
                  /\ traefik_needed' = tn
                  /\ dc' = [dc EXCEPT
                              !.services = Put(dc.services, service, res.val),
                              !.networks = NetworksAfter(tn, dc.networks)]
         /\ built' = Append(built, service)
  /\ idx' = idx + 1
  /\ UNCHANGED <<pc, data, output, dst, stdout, stderr, dst_written, status,
                 failed, svvars>>

\* Line 168 raises: nothing catches the exception, the interpreter prints
\* the traceback and exits with status 1.
ServiceFromDictRaises ==
  /\ pc = "loop"
  /\ idx <= Len(data)
  /\ LET service == data[idx].name
         tr      == from_dict(service, data[idx].tr)
     IN  /\ ~tr.ok
         /\ stderr' = Append(stderr, Traceback(tr.exc))
         /\ built' = Append(built, service)
  /\ status' = 1
  /\ failed' = idx
  /\ pc' = "exit"
  /\ UNCHANGED <<data, output, dst, idx, dc, traefik_needed, stdout,
                 dst_written, svvars>>

\* A slip in lines 171-173: the handler reports and the loop goes on.
ServiceToDictRaisesGoesOn ==
  /\ pc = "loop"
  /\ idx <= Len(data)
  /\ LET service == data[idx].name
         tr      == from_dict(service, data[idx].tr)
     IN  /\ tr.ok
         /\ \E run \in DopplerRuns :
              LET res == to_dict(tr.gen, run)
              IN  /\ ~res.ok
                  /\ stderr' = Append(stderr, "Services: " \o service \o ": "
                                              \o res.exc \o "\n")
         /\ built' = Append(built, service)
  /\ failed' = idx
  /\ idx' = idx + 1
  /\ UNCHANGED <<pc, data, output, dst, dc, traefik_needed, stdout,
                 dst_written, status, svvars>>

\* Lines 169-173: to_dict raises, the handler reports and exits.
ServiceToDictRaises ==
  /\ pc = "loop"
  /\ idx <= Len(data)
  /\ LET service == data[idx].name
         tr      == from_dict(service, data[idx].tr)
     IN  /\ tr.ok
         /\ \E run \in DopplerRuns :
              LET res == to_dict(tr.gen, run)
              IN  /\ ~res.ok
                  /\ stderr' = Append(stderr, "Services: " \o service \o ": "
                                              \o res.exc \o "\n")
         /\ built' = Append(built, service)
  /\ status' = ExitStatus(-5)
  /\ failed' = idx
  /\ pc' = "exit"
  /\ UNCHANGED <<data, output, dst, idx, dc, traefik_needed, stdout,
                 dst_written, svvars>>

\* Line 179.
MakeReturn ==
  /\ pc = "loop"
  /\ idx > Len(data)
  /\ pc' = "write"
  /\ UNCHANGED <<data, output, dst, idx, dc, traefik_needed, stdout, stderr,
                 dst_written, status, built, failed, svvars>>

\* Lines 193-194.
WriteStdout ==
  /\ pc = "write"
  /\ output = "-"
  /\ stdout' = Append(stdout, to_yaml(dc))
  /\ status' = 0
  /\ pc' = "exit"
  /\ UNCHANGED <<data, output, dst, idx, dc, traefik_needed, stderr,
                 dst_written, built, failed, svvars>>

\* Lines 195-198.
WriteFile ==
  /\ pc = "write"
  /\ output # "-"
  /\ dst_written' = to_yaml(dc)
  /\ stdout' = Append(stdout, output \o " file generated")
  /\ status' = 0
  /\ pc' = "exit"
  /\ UNCHANGED <<data, output, dst, idx, dc, traefik_needed, stderr,
                 built, failed, svvars>>

Next ==
  \/ MainSourceMissing
  \/ MainStale
  \/ MainMake
  \/ ServiceRendered
  \/ ServiceFromDictRaises
  \/ ServiceToDictRaises
  \/ MakeReturn
  \/ WriteStdout
  \/ WriteFile

Spec == Init /\ [][Next]_vars

---------------------------------------------------------------------------
\* One service entry taken through Trado.from_dict and Trado.to_dict.

Alphabet == {"h", "8", "@", "/"}

\* "host.example.com@8080/api"
ExamplePublic ==
  <<"h","o","s","t",".","e","x","a","m","p","l","e",".","c","o","m",
    "@","8","0","8","0","/","a","p","i">>

\* Every public value over the alphabet up to the bound, and some longer ones.
PublicValues ==
  UNION { [1..k -> Alphabet] : k \in 1..MaxPublicLen }
  \cup { ExamplePublic,
         <<"a","p","p",".","t","e","s","t","@","8","0">>,
         <<"h","/","a","@","8">>,
         <<" ","h"," ","/"," ","a"," ","@"," ","8"," ">> }

\* Entries that only declare `public`.
PublicEntries == { ("public" :> p) : p \in PublicValues }

\* Entries that vary every other field over a few public values.
FieldEntries ==
  { Opt("public", p) @@ Opt("labels", l) @@ Opt("networks", n)
    @@ Opt("envs", e) @@ Opt("restart", r) @@ Opt("doppler", d)
    @@ Opt("watchtower", w) @@ ("image" :> "nginx") :
      p \in {None, Some(<<"h">>), Some(<<"h","/","a">>),
             Some(<<"h","/","a","@","8">>), Some(<<"@","8">>)},
      l \in {None, Some(List(<<"a=b">>)),
             Some(Map(<< <<"a", Sub(<< <<"b", Leaf("1")>>,
                                       <<"c", Sub(<< <<"d", Leaf("2")>> >>)>> >>)>> >>)),
             Some(Other)},
      n \in {None, Some(List(<<"traefik">>)), Some(List(<<"db">>)),
             Some(Str("traefik"))},
      e \in {None, Some(List(<<"E=1">>))},
      r \in {None, Some(<<"A","l","w","a","y","s">>),
             Some(<<"m","a","y","b","e">>)},
      d \in {None, Some(TRUE)},
      w \in {None, Some(TRUE)} }

ServiceEntries == PublicEntries \cup FieldEntries

ServiceName == "app"

RunIdle ==
  /\ pc = "idle" /\ data = <<>> /\ output = "-" /\ dst = "absent" /\ idx = 0
  /\ dc = DockerCompose /\ traefik_needed = FALSE
  /\ stdout = <<>> /\ stderr = <<>> /\ dst_written = <<>>
  /\ status = -1 /\ built = <<>> /\ failed = 0

SvInit ==
  /\ sv_pc = "raw"
  /\ sv_tr \in ServiceEntries
  /\ sv_gen = EmptyDict
  /\ sv_out = EmptyDict
  /\ sv_exc = ""
  /\ RunIdle

\* Trado.from_dict returns the descriptor.
SvBuild ==
  /\ sv_pc = "raw"
  /\ from_dict(ServiceName, sv_tr).ok
  /\ sv_gen' = from_dict(ServiceName, sv_tr).gen
  /\ sv_pc' = "built"
  /\ UNCHANGED <<sv_tr, sv_out, sv_exc, runvars>>

\* Trado.from_dict raises.
SvBuildRaises ==
  /\ sv_pc = "raw"
  /\ ~from_dict(ServiceName, sv_tr).ok
  /\ sv_exc' = from_dict(ServiceName, sv_tr).exc
  /\ sv_pc' = "raised"
  /\ UNCHANGED <<sv_tr, sv_gen, sv_out, runvars>>

\* Trado.to_dict returns the rendered mapping.
SvRender ==
  /\ sv_pc = "built"
  /\ \E run \in DopplerRuns :
       /\ to_dict(sv_gen, run).ok
       /\ sv_out' = to_dict(sv_gen, run).val
  /\ sv_pc' = "rendered"
  /\ UNCHANGED <<sv_tr, sv_gen, sv_exc, runvars>>

\* Trado.to_dict raises.
SvRenderRaises ==
  /\ sv_pc = "built"
  /\ \E run \in DopplerRuns :
       /\ ~to_dict(sv_gen, run).ok
       /\ sv_exc' = to_dict(sv_gen, run).exc
  /\ sv_pc' = "raised"
  /\ UNCHANGED <<sv_tr, sv_gen, sv_out, runvars>>

SvNext ==
  \/ SvBuild
  \/ SvBuildRaises
  \/ SvRender
  \/ SvRenderRaises

SpecService == SvInit /\ [][SvNext]_vars

---------------------------------------------------------------------------
\* Properties.

\* The rendered service lists the shared network.
HasTraefik(rendered) ==
  /\ "networks" \in DOMAIN rendered
  /\ \E n \in 1..Len(rendered["networks"]) : rendered["networks"][n] = "traefik"

\* The document written by to_yaml has a top-level networks block.
NetworksBlockInOutput ==
  \E n \in 1..Len(to_yaml(dc)) : to_yaml(dc)[n].block = "networks"

\* The rendered form of the k-th service of the document.
RenderedAt(k) == dc.services[data[k].name]

NoRepeats(seq) ==
  \A m, n \in 1..Len(seq) : m # n => seq[m] # seq[n]

\* C1: when make_dc_from_toml has returned, the output document has the
\* top-level networks block if and only if some processed service's rendered
\* networks list contains traefik.
C1_NetworksIffAnyService ==
  pc = "write" =>
    (NetworksBlockInOutput
       <=> \E s \in DOMAIN dc.services : HasTraefik(dc.services[s]))

\* The public value reads host@port/prefix: host and port are not empty and
\* hold neither "@" nor "/", and the prefix is not empty.
IsHostPortPrefix(p) ==
  /\ Contains(p, "@") /\ Contains(p, "/")
  /\ 1 < FirstIndex(p, "@")
  /\ FirstIndex(p, "@") + 1 < FirstIndex(p, "/")
  /\ \A k \in (FirstIndex(p, "@") + 1)..(FirstIndex(p, "/") - 1) : p[k] # "@"
  /\ FirstIndex(p, "/") < Len(p)

\* C2: for a public value host@port/prefix the descriptor holds url_host =
\* host, url_expose = port and url_prefix = "/" + prefix.
C2_HostPortPrefixSplit ==
  (sv_pc = "built" /\ "public" \in DOMAIN sv_tr /\ IsHostPortPrefix(sv_tr["public"])) =>
    LET p  == sv_tr["public"]
        at == FirstIndex(p, "@")
        sl == FirstIndex(p, "/")
    IN  /\ sv_gen.url_host = SubSeq(p, 1, at - 1)
        /\ sv_gen.url_expose = SubSeq(p, at + 1, sl - 1)
        /\ sv_gen.url_prefix = <<"/">> \o SubSeq(p, sl + 1, Len(p))

\* The texts of the domain errors processing a raw entry can raise.
DomainErrorTexts(name, tr) ==
  {from_dict(name, tr).exc, "doppler secrets --json failed"}

\* C3: whenever processing a service raised a domain error, the last line on
\* the error stream names that service and the process ended with the
\* domain-error status of sys.exit(-5).
C3_DomainErrorsReported ==
  failed # 0 =>
    /\ status = ExitStatus(-5)
    /\ stderr # <<>>
    /\ stderr[Len(stderr)] \in
         { "Services: " \o data[failed].name \o ": " \o e \o "\n" :
             e \in DomainErrorTexts(data[failed].name, data[failed].tr) }

\* The routing labels the claim C4 lists, for a descriptor.
ExpectedRoutingLabels(gen) ==
  LET n    == gen.name
      host == "Host(" \o BQ \o Join(gen.url_host) \o BQ \o ")"
      rule == IF gen.url_prefix # <<>>
                THEN host \o " && PathPrefix(" \o BQ \o Join(gen.url_prefix)
                          \o BQ \o ")"
                ELSE host
  IN  <<"traefik.enable=true">>
      \o (IF gen.url_expose # <<>>
            THEN <<"traefik.http.services." \o n \o ".loadbalancer.server.port="
                   \o Join(gen.url_expose)>>
            ELSE <<>>)
      \o <<"traefik.http.routers." \o n \o ".rule=" \o rule,
           "traefik.http.routers." \o n \o ".entrypoints=web-secure",
           "traefik.http.routers." \o n \o ".tls=true">>
      \o (IF gen.url_prefix # <<>>
            THEN <<"traefik.http.middlewares." \o n
                   \o "-pathfix.stripprefix.prefixes=" \o Join(gen.url_prefix),
                   "traefik.http.routers." \o n \o ".middlewares=" \o n
                   \o "-pathfix@docker">>
            ELSE <<"traefik.http.middlewares." \o n
                   \o "-https.redirectscheme.scheme=https",
                   "traefik.http.routers." \o n \o "-http.entrypoints=web",
                   "traefik.http.routers." \o n \o "-http.rule=" \o rule,
                   "traefik.http.routers." \o n \o "-http.middlewares=" \o n
                   \o "-https@docker",
                   "traefik.http.routers." \o n \o ".tls.certresolver=default">>)

WatchtowerLabel == "com.centurylinklabs.watchtower.enable=false"

\* What add_watchtower_disabled leaves after the labels of a descriptor.
WatchtowerSuffix(gen) ==
  IF gen.watchtower THEN <<>> ELSE <<WatchtowerLabel>>

\* C4: for a descriptor with a non-empty url_host the rendered labels are the
\* source labels, then exactly the routing labels in the order listed (port
\* label iff url_expose is set; the pathfix pair and no -http router when
\* url_prefix is set, otherwise the redirect middleware, the -http router
\* and the certresolver), then whatever add_watchtower_disabled appends.
C4_RoutingLabels ==
  (sv_pc = "rendered" /\ sv_gen.url_host # <<>>) =>
    sv_out["labels"]
      = sv_gen.labels \o ExpectedRoutingLabels(sv_gen) \o WatchtowerSuffix(sv_gen)

\* C4 witness: a rendered service with host, prefix, port and source labels.
C4_Witness ==
  /\ sv_pc = "rendered"
  /\ sv_gen.url_host # <<>> /\ sv_gen.url_prefix # <<>>
  /\ sv_gen.url_expose # <<>> /\ sv_gen.labels # <<>>
  /\ Len(sv_out["labels"]) = Len(sv_gen.labels) + 7 + Len(WatchtowerSuffix(sv_gen))

\* C5: once processing of a service failed the run has ended at that
\* service: it was the last one handed to from_dict, only the services before
\* it are rendered, and nothing was written to standard output or to the
\* destination file.
C5_FailureStopsRun ==
  failed # 0 =>
    /\ pc = "exit"
    /\ Len(built) = failed
    /\ DOMAIN dc.services = {data[k].name : k \in 1..(failed - 1)}
    /\ stdout = <<>>
    /\ dst_written = <<>>

\* C5 witness: the third service failed in to_dict after two were rendered.
C5_Witness ==
  /\ failed = 3
  /\ status = ExitStatus(-5)
  /\ Cardinality(DOMAIN dc.services) = 2
  /\ pc = "exit"

C7_NoHostNoRouting ==
  (sv_pc = "rendered" /\ sv_gen.url_host = <<>>) =>
    /\ sv_gen.watchtower => "labels" \notin DOMAIN sv_out
    /\ ~sv_gen.watchtower => sv_out["labels"] = <<WatchtowerLabel>>
    /\ Get(sv_out, "networks", <<>>) = get_complex_by_type(sv_tr, "networks").val
    /\ "networks" \in DOMAIN sv_out => sv_out["networks"] # <<>>

\* C7 witness: a public value with an empty host part, source labels and
\* source networks, rendered.
C7_Witness ==
  /\ sv_pc = "rendered"
  /\ sv_gen.url_host = <<>>
  /\ Get(sv_tr, "public", <<>>) # <<>>
  /\ sv_gen.labels # <<>>
  /\ sv_gen.networks # <<>>
  /\ ~sv_gen.watchtower

\* Some rendered service references traefik.
SeenTraefik == \E s \in DOMAIN dc.services : HasTraefik(dc.services[s])

\* C8: the networks block, once cleared, is never restored; once a service
\* referencing traefik was seen no later step changes the block; and when
\* make_dc_from_toml returns for a non-empty document the block is present
\* if and only if the first service's rendered networks contain traefik.
C8_Latch ==
  /\ [][/\ dc.networks = EmptyDict => dc'.networks = EmptyDict
        /\ SeenTraefik => dc'.networks = dc.networks]_vars
  /\ []((pc = "write" /\ data # <<>>)
          => (dc.networks # EmptyDict <=> HasTraefik(RenderedAt(1))))

\* C8 witness: three services, the first without and the second with the
\* reference, and the block is gone when the loop has ended.
C8_Witness ==
  /\ pc = "write"
  /\ Len(data) = 3
  /\ ~HasTraefik(RenderedAt(1))
  /\ HasTraefik(RenderedAt(2))
  /\ dc.networks = EmptyDict

\* C9: the keys of a rendered service are among image, labels, environment,
\* volumes, ports, restart and networks.
C9_RenderedKeys ==
  sv_pc = "rendered" =>
    DOMAIN sv_out \subseteq
      {"image", "labels", "environment", "volumes", "ports", "restart", "networks"}

\* C10: when the source networks list has no repeated entry, neither has the
\* rendered one.
C10_NoRepeatedNetwork ==
  (sv_pc = "rendered" /\ NoRepeats(get_complex_by_type(sv_tr, "networks").val)) =>
    NoRepeats(Get(sv_out, "networks", <<>>))

=============================================================================
